---- MODULE Spec2Model ----
(***************************************************************************)
(* A model of the grep-like matcher of src/main.rs: parse_pattern builds   *)
(* a Vec<Match> from a pattern, Matcher::match walks one input line over   *)
(* it, Match::match evaluates one fragment at one byte index.              *)
(*                                                                         *)
(* Strings are Rust &str values: sequences of UTF-8 bytes.  len() and      *)
(* slicing are in bytes, chars() decodes characters, and slicing off a     *)
(* character boundary or out of range panics.  The recursion of            *)
(* Match::match is modelled by an explicit call stack, so that every       *)
(* iteration of the loop of OneOfMore is a step of the machine.            *)
(***************************************************************************)
EXTENDS Integers, Sequences

VARIABLES pattern, input_line, fragments, current_fragment, char_index,
          stack, result, pc, outcome

vars == <<pattern, input_line, fragments, current_fragment, char_index,
          stack, result, pc, outcome>>

-----------------------------------------------------------------------------
(* Bounds of the model *)

\* most tokens of a pattern of the first family of inputs
MaxTokens == 2
\* longest input line, in characters, of the first family of inputs
MaxLine == 2
\* most characters after the first letter of a pattern of the second family
MaxPostfix == 3
\* longest input line, in characters, of the second family of inputs
MaxAsciiLine == 4
\* largest value of a usize (the model's stand-in for 2^64 - 1)
UsizeMax == 9

-----------------------------------------------------------------------------
(* UTF-8 strings *)

\* the two bytes of one two-byte character (U+00E9)
LeadByte == "C3"
ContByte == "A9"

\* a one-byte (ASCII) character, and the two-byte character, as strings
Ch(b) == <<b>>
Wide == <<LeadByte, ContByte>>

RECURSIVE Concat(_)
\* the concatenation of a sequence of strings
Concat(ss) == IF ss = <<>> THEN <<>> ELSE Head(ss) \o Concat(Tail(ss))

RECURSIVE Chars(_)
\* str::chars: the characters of a string, each as the string of its bytes
Chars(s) ==
    IF s = <<>> THEN <<>>
    ELSE IF Head(s) = LeadByte
         THEN <<SubSeq(s, 1, 2)>> \o Chars(SubSeq(s, 3, Len(s)))
         ELSE <<SubSeq(s, 1, 1)>> \o Chars(Tail(s))

\* str::is_char_boundary, for a byte index i (from 0)
IsCharBoundary(s, i) ==
    \/ i = 0
    \/ i = Len(s)
    \/ i < Len(s) /\ s[i + 1] # ContByte

\* whether &s[i..j] panics
SlicePanics(s, i, j) ==
    \/ i > j
    \/ j > Len(s)
    \/ ~IsCharBoundary(s, i)
    \/ ~IsCharBoundary(s, j)

\* &s[i..j], where it does not panic
Slice(s, i, j) == SubSeq(s, i + 1, j)

AsciiDigits == {"1"}
AsciiLetters == {"a", "d", "w"}

\* char::is_ascii_digit and char::is_ascii_alphanumeric
IsAsciiDigit(c) == Len(c) = 1 /\ c[1] \in AsciiDigits
IsAsciiAlphanumeric(c) == Len(c) = 1 /\ c[1] \in AsciiDigits \cup AsciiLetters

\* the outcomes of a + b on usize: the sum, or on overflow a panic (-1, a
\* build with overflow checks) or the wrapped sum (a build without)
Add(a, b) ==
    IF a + b <= UsizeMax THEN {a + b} ELSE {-1, (a + b) % (UsizeMax + 1)}

-----------------------------------------------------------------------------
(* enum Match, enum MatchResult *)

Literal(s)        == [t |-> "Literal", s |-> s]
Class(c)          == [t |-> "Class", c |-> c]
PositiveGroup(g)  == [t |-> "PositiveGroup", g |-> g]
NegativeGroup(g)  == [t |-> "NegativeGroup", g |-> g]
StartOfLine(f)    == [t |-> "StartOfLine", f |-> f]
EndOfLine(f)      == [t |-> "EndOfLine", f |-> f]
OneOfMore(f)      == [t |-> "OneOfMore", f |-> f]
ZeroOrOne(f)      == [t |-> "ZeroOrOne", f |-> f]
AnyChar           == [t |-> "AnyChar"]

Match(n) == [k |-> "Match", n |-> n]
NoMatch  == [k |-> "NoMatch", n |-> 0]
\* a panic of an evaluation (no MatchResult is produced)
Panic    == [k |-> "Panic", n |-> 0]
\* no call has returned yet
NoResult == [k |-> "None", n |-> 0]

\* impl From<bool> for MatchResult
FromBool(b) == IF b THEN Match(1) ELSE NoMatch

\* impl Not for MatchResult
Not(r) == IF r.k = "Match" THEN NoMatch ELSE Match(0)

\* impl From<MatchResult> for bool
ToBool(r) == r.k = "Match"

-----------------------------------------------------------------------------
(* Matcher::parse_pattern *)

Ok(fs)   == [ok |-> TRUE, fragments |-> fs, err |-> "none"]
Err(e)   == [ok |-> FALSE, fragments |-> <<>>, err |-> e]

\* Vec::pop on a non-empty vector: the vector without its last element
Pop(fs) == SubSeq(fs, 1, Len(fs) - 1)
Last(fs) == fs[Len(fs)]

\* parse_character_class: the escape after a backslash, the cursor at chars[i]
ParseCharacterClass(chars, i, fs) ==
    IF i > Len(chars) THEN Err("expected character after backslash")
    ELSE IF chars[i] = Ch("d") THEN Ok(Append(fs, Class("Digit")))
    ELSE IF chars[i] = Ch("w") THEN Ok(Append(fs, Class("Word")))
    ELSE IF chars[i] = Ch("\\") THEN Ok(Append(fs, Literal(Ch("\\"))))
    ELSE Err("todo: handle character class")

RECURSIVE GroupScan(_, _, _, _)
\* the for loop of parse_positive_character_group from chars[i]: the index
\* after the characters it consumed, and the group it pushed, if any
GroupScan(chars, i, group, group_negative) ==
    IF i > Len(chars) THEN [next |-> i, pushed |-> <<>>]
    ELSE IF chars[i] = Ch("^") THEN GroupScan(chars, i + 1, group, TRUE)
    ELSE IF chars[i] = Ch("]")
         THEN [next |-> i + 1,
               pushed |-> IF group_negative THEN <<NegativeGroup(group)>>
                                            ELSE <<PositiveGroup(group)>>]
    ELSE GroupScan(chars, i + 1, Append(group, Literal(chars[i])), group_negative)

ParsePositiveCharacterGroup(chars, i) == GroupScan(chars, i, <<>>, FALSE)

RECURSIVE ParsePattern(_)
RECURSIVE ParseFrom(_, _, _)
\* the while loop of parse_pattern, the iterator at chars[i]
ParseFrom(chars, i, fs) ==
    IF i > Len(chars) THEN Ok(fs)
    ELSE LET c == chars[i] IN
      CASE c = Ch("\\") ->
             LET r == ParseCharacterClass(chars, i + 1, fs) IN
             IF r.ok THEN ParseFrom(chars, i + 2, r.fragments) ELSE r
        [] c = Ch("[") ->
             LET g == ParsePositiveCharacterGroup(chars, i + 1) IN
             ParseFrom(chars, g.next, fs \o g.pushed)
        [] c = Ch("^") ->
             IF i + 1 > Len(chars) THEN Err("unwrap on None: no character after ^")
             ELSE LET inner == ParsePattern(chars[i + 1]) IN
                  IF ~inner.ok THEN inner
                  ELSE IF inner.fragments = <<>>
                       THEN Err("unwrap on None: nothing parsed after ^")
                  ELSE ParseFrom(chars, i + 2,
                                 Append(fs, StartOfLine(Last(inner.fragments))))
        [] c = Ch("$") ->
             IF fs = <<>> THEN Err("unwrap on None: nothing before $")
             ELSE ParseFrom(chars, i + 1, Append(Pop(fs), EndOfLine(Last(fs))))
        [] c = Ch("+") ->
             IF fs = <<>> THEN Err("unwrap on None: nothing before +")
             ELSE ParseFrom(chars, i + 1, Append(Pop(fs), OneOfMore(Last(fs))))
        [] c = Ch("?") ->
             IF fs = <<>> THEN Err("unwrap on None: nothing before ?")
             ELSE ParseFrom(chars, i + 1, Append(Pop(fs), ZeroOrOne(Last(fs))))
        [] c = Ch(".") -> ParseFrom(chars, i + 1, Append(fs, AnyChar))
        [] OTHER -> ParseFrom(chars, i + 1, Append(fs, Literal(c)))

\* parse_pattern on the string p
ParsePattern(p) == ParseFrom(Chars(p), 1, <<>>)

-----------------------------------------------------------------------------
(* Match::match on the fragments that call no other fragment *)

\* Match::Literal
MatchLiteral(literal, line, idx) ==
    LET literal_length == Len(literal) IN
    IF Len(line) < literal_length THEN NoMatch
    ELSE IF idx + literal_length > UsizeMax THEN Panic
    ELSE IF SlicePanics(line, idx, idx + literal_length) THEN Panic
    ELSE IF Slice(line, idx, idx + literal_length) # literal THEN NoMatch
    ELSE Match(literal_length)

\* Match::Class
MatchClass(class, line, idx) ==
    IF SlicePanics(line, idx, Len(line)) THEN Panic
    ELSE LET rest == Chars(Slice(line, idx, Len(line))) IN
         IF rest = <<>> THEN Panic
         ELSE IF class = "Digit" THEN FromBool(IsAsciiDigit(rest[1]))
         ELSE FromBool(IsAsciiAlphanumeric(rest[1]))

RECURSIVE AnyMember(_, _, _)
\* Iterator::any over the members of a group (each a Literal), stopping at
\* the first that matches
AnyMember(group, line, idx) ==
    IF group = <<>> THEN FromBool(FALSE)
    ELSE LET r == MatchLiteral(Head(group).s, line, idx) IN
         IF r = Panic THEN Panic
         ELSE IF ToBool(r) THEN FromBool(TRUE)
         ELSE AnyMember(Tail(group), line, idx)

RECURSIVE AllMembersFail(_, _, _)
\* Iterator::all over the negated results of the members, stopping at the
\* first member that matches
AllMembersFail(group, line, idx) ==
    IF group = <<>> THEN FromBool(TRUE)
    ELSE LET r == MatchLiteral(Head(group).s, line, idx) IN
         IF r = Panic THEN Panic
         ELSE IF ToBool(Not(r)) THEN AllMembersFail(Tail(group), line, idx)
         ELSE FromBool(FALSE)

\* Match::PositiveGroup and Match::NegativeGroup
MatchPositiveGroup(group, line, idx) == AnyMember(group, line, idx)
MatchNegativeGroup(group, line, idx) == AllMembersFail(group, line, idx)

\* Match::AnyChar
MatchAnyChar(line, idx) == Match(1)

-----------------------------------------------------------------------------
(* The inputs of match_pattern *)

\* First family: patterns of a few tokens of the whole grammar (and of its
\* malformed uses: a lone backslash, bracket or operator), lines of ASCII and
\* two-byte characters.
PatternTokens ==
    {Ch("a"), Ch("d"), Wide, Ch("."),
     <<"\\", "d">>, <<"\\", "w">>, Ch("\\"),
     Ch("["), Ch("]"), <<"[", "a", "d", "]">>, <<"[", "^", "a", "d", "]">>,
     Ch("^"), Ch("$"), Ch("+"), Ch("?")}
LineAlphabet == {Ch("a"), Ch("d"), Ch("1"), Wide}

\* Second family: a letter followed by letters and postfix operators, lines
\* of ASCII letters.
Letters == {Ch("a"), Ch("d")}
PostfixAlphabet == Letters \cup {Ch("?"), Ch("+"), Ch("$")}

\* the strings of at most n elements of A, concatenated
Strings(A, n) == {Concat(cs) : cs \in UNION {[1..k -> A] : k \in 0..n}}

TokenPatterns == Strings(PatternTokens, MaxTokens)
Lines == Strings(LineAlphabet, MaxLine)
PostfixPatterns ==
    {c \o rest : c \in Letters, rest \in Strings(PostfixAlphabet, MaxPostfix)}
AsciiLines == Strings(Letters, MaxAsciiLine)

-----------------------------------------------------------------------------
(* The machine *)

\* one activation of Match::match: its fragment (self), its char_index, the
\* match_length of OneOfMore, and whether the fragment it called has returned
Frame(f, idx) ==
    [fragment |-> f, char_index |-> idx, match_length |-> 0, returned |-> FALSE]

Top == stack[Len(stack)]

Init ==
    /\ \/ pattern \in TokenPatterns /\ input_line \in Lines
       \/ pattern \in PostfixPatterns /\ input_line \in AsciiLines
    /\ fragments = <<>>
    /\ current_fragment = 0
    /\ char_index = 0
    /\ stack = <<>>
    /\ result = NoResult
    /\ pc = "match_pattern"
    /\ outcome = "none"

\* the process ends: match_pattern returned a boolean ("true", "false"), or a
\* panic unwound it: in parse_pattern ("parse_panic"), in Match::match
\* ("panic"), or on an arithmetic overflow where the build checks for it
\* ("overflow")
Finish(how) ==
    /\ pc' = "done"
    /\ outcome' = how
    /\ stack' = <<>>
    /\ UNCHANGED <<pattern, input_line, fragments, current_fragment,
                   char_index, result>>

\* match_pattern: Matcher::from_pattern, then the first lines of
\* Matcher::match
MatchPattern ==
    /\ pc = "match_pattern"
    /\ LET parsed == ParsePattern(pattern) IN
       IF parsed.ok
       THEN /\ fragments' = parsed.fragments
            /\ current_fragment' = 1
            /\ char_index' = 0
            /\ pc' = "loop"
            /\ UNCHANGED <<pattern, input_line, stack, result, outcome>>
       ELSE /\ Finish("parse_panic")

\* Matcher::match: out of fragments
LoopReturnTrue ==
    /\ pc = "loop"
    /\ current_fragment > Len(fragments)
    /\ Finish("true")

\* Matcher::match: out of string with fragments left
LoopReturnFalse ==
    /\ pc = "loop"
    /\ current_fragment <= Len(fragments)
    /\ char_index >= Len(input_line)
    /\ Finish("false")

\* Matcher::match: the call fragment.match(input_line, &char_index)
LoopCall ==
    /\ pc = "loop"
    /\ current_fragment <= Len(fragments)
    /\ char_index < Len(input_line)
    /\ stack' = <<Frame(fragments[current_fragment], char_index)>>
    /\ pc' = "match"
    /\ UNCHANGED <<pattern, input_line, fragments, current_fragment,
                   char_index, result, outcome>>

\* Matcher::match: the arm MatchResult::Match(match_length)
LoopMatch ==
    /\ pc = "match"
    /\ stack = <<>>
    /\ result.k = "Match"
    /\ \E sum \in Add(char_index, result.n) :
         IF sum = -1 THEN Finish("overflow")
         ELSE /\ current_fragment' = current_fragment + 1
              /\ char_index' = sum
              /\ pc' = "loop"
              /\ UNCHANGED <<pattern, input_line, fragments, stack, result,
                             outcome>>

\* Matcher::match: the arm MatchResult::NoMatch
LoopNoMatch ==
    /\ pc = "match"
    /\ stack = <<>>
    /\ result.k = "NoMatch"
    /\ \E sum \in Add(char_index, 1) :
         IF sum = -1 THEN Finish("overflow")
         ELSE /\ char_index' = sum
              /\ pc' = "loop"
              /\ UNCHANGED <<pattern, input_line, fragments,
                             current_fragment, stack, result, outcome>>

\* the activation on top of the stack returns r to its caller, or panics
Return(r) ==
    IF r = Panic THEN Finish("panic")
    ELSE /\ result' = r
         /\ stack' = IF Len(stack) = 1 THEN <<>>
                     ELSE [Pop(stack) EXCEPT ![Len(stack) - 1].returned = TRUE]
         /\ UNCHANGED <<pattern, input_line, fragments, current_fragment,
                        char_index, pc, outcome>>

\* the activation on top of the stack calls its inner fragment at idx
Call(idx) ==
    /\ stack' = Append(stack, Frame(Top.fragment.f, idx))
    /\ UNCHANGED <<pattern, input_line, fragments, current_fragment,
                   char_index, result, pc, outcome>>

Running(tag) == pc = "match" /\ stack # <<>> /\ Top.fragment.t = tag

EvalLiteral ==
    /\ Running("Literal")
    /\ Return(MatchLiteral(Top.fragment.s, input_line, Top.char_index))

EvalClass ==
    /\ Running("Class")
    /\ Return(MatchClass(Top.fragment.c, input_line, Top.char_index))

EvalPositiveGroup ==
    /\ Running("PositiveGroup")
    /\ Return(MatchPositiveGroup(Top.fragment.g, input_line, Top.char_index))

EvalNegativeGroup ==
    /\ Running("NegativeGroup")
    /\ Return(MatchNegativeGroup(Top.fragment.g, input_line, Top.char_index))

EvalAnyChar ==
    /\ Running("AnyChar")
    /\ Return(MatchAnyChar(input_line, Top.char_index))

\* StartOfLine without its test of char_index
StartOfLineResultAnywhere(r, idx) == r

\* Match::StartOfLine: the call of the wrapped fragment, and the match on
\* its result
StartOfLineResult(r, idx) ==
    IF r.k = "Match" THEN IF idx = 0 THEN r ELSE NoMatch ELSE r

StartOfLineCall ==
    /\ Running("StartOfLine")
    /\ ~Top.returned
    /\ Call(Top.char_index)

StartOfLineReturn ==
    /\ Running("StartOfLine")
    /\ Top.returned
    /\ Return(StartOfLineResult(result, Top.char_index))

\* Match::EndOfLine
EndOfLineResult(r, end, line) ==
    IF r.k = "Match" THEN IF end = Len(line) THEN r ELSE NoMatch ELSE r

EndOfLineCall ==
    /\ Running("EndOfLine")
    /\ ~Top.returned
    /\ Call(Top.char_index)

EndOfLineReturn ==
    /\ Running("EndOfLine")
    /\ Top.returned
    /\ \E end \in Add(Top.char_index, result.n) :
         IF result.k = "Match" /\ end = -1 THEN Finish("overflow")
         ELSE Return(EndOfLineResult(result, end, input_line))

\* Match::OneOfMore: one iteration of its loop is a call and the match on
\* its result
OneOfMoreResult(match_length) ==
    IF match_length = 0 THEN NoMatch ELSE Match(match_length)

OneOfMoreCall ==
    /\ Running("OneOfMore")
    /\ ~Top.returned
    /\ \E new_index \in Add(Top.char_index, Top.match_length) :
         IF new_index = -1 THEN Finish("overflow") ELSE Call(new_index)

OneOfMoreReturn ==
    /\ Running("OneOfMore")
    /\ Top.returned
    /\ IF result.k = "Match"
       THEN \E sum \in Add(Top.match_length, result.n) :
              IF sum = -1 THEN Finish("overflow")
              ELSE /\ stack' = [stack EXCEPT ![Len(stack)].match_length = sum,
                                             ![Len(stack)].returned = FALSE]
                   /\ UNCHANGED <<pattern, input_line, fragments,
                                  current_fragment, char_index, result, pc,
                                  outcome>>
       ELSE Return(OneOfMoreResult(Top.match_length))

\* Match::ZeroOrOne
ZeroOrOneResult(r) == IF r.k = "Match" THEN Match(r.n) ELSE Match(0)

ZeroOrOneCall ==
    /\ Running("ZeroOrOne")
    /\ ~Top.returned
    /\ Call(Top.char_index)

ZeroOrOneReturn ==
    /\ Running("ZeroOrOne")
    /\ Top.returned
    /\ Return(ZeroOrOneResult(result))

Next ==
    \/ MatchPattern
    \/ LoopReturnTrue
    \/ LoopReturnFalse
    \/ LoopCall
    \/ LoopMatch
    \/ LoopNoMatch
    \/ EvalLiteral
    \/ EvalClass
    \/ EvalPositiveGroup
    \/ EvalNegativeGroup
    \/ EvalAnyChar
    \/ StartOfLineCall
    \/ StartOfLineReturn
    \/ EndOfLineCall
    \/ EndOfLineReturn
    \/ OneOfMoreCall
    \/ OneOfMoreReturn
    \/ ZeroOrOneCall
    \/ ZeroOrOneReturn

Spec == Init /\ [][Next]_vars

\* the process is scheduled until it exits
FairSpec == Spec /\ WF_vars(Next)

-----------------------------------------------------------------------------
(* What the properties speak of *)

Done == pc = "done"

\* the characters parse_pattern gives a meaning other than Literal
SpecialBytes == {"\\", "[", "^", "$", "+", "?", "."}
IsLiteralChar(c) == ~(Len(c) = 1 /\ c[1] \in SpecialBytes)

\* a pattern made only of literal characters
LiteralOnly(p) == \A i \in 1..Len(Chars(p)) : IsLiteralChar(Chars(p)[i])

\* the one-character literal patterns among the tokens
LiteralTokens == {c \in PatternTokens : Len(Chars(c)) = 1 /\ IsLiteralChar(c)}

\* str::contains: p is a contiguous substring of line
Contains(line, p) ==
    \E i \in 0..(Len(line) - Len(p)) : SubSeq(line, i + 1, i + Len(p)) = p

RECURSIVE IsSubsequence(_, _)
\* the characters ps occur in ls in order, possibly with gaps
IsSubsequence(ps, ls) ==
    IF ps = <<>> THEN TRUE
    ELSE IF ls = <<>> THEN FALSE
    ELSE IF Head(ps) = Head(ls) THEN IsSubsequence(Tail(ps), Tail(ls))
    ELSE IsSubsequence(ps, Tail(ls))

\* the line of n characters c
Run(c, n) == Concat([i \in 1..n |-> c])

\* no byte of a two-byte character
IsAscii(s) == \A i \in 1..Len(s) : s[i] \notin {LeadByte, ContByte}

FirstCharIs(line, c) == line # <<>> /\ Chars(line)[1] = c
LastCharIs(line, c) == line # <<>> /\ Last(Chars(line)) = c

\* the pattern has a '[' with no ']' after it
UnterminatedGroup(p) ==
    \E i \in 1..Len(Chars(p)) :
        /\ Chars(p)[i] = Ch("[")
        /\ \A j \in (i + 1)..Len(Chars(p)) : Chars(p)[j] # Ch("]")

-----------------------------------------------------------------------------
(* The properties *)

\* C1: for a pattern made only of literal characters, match_pattern returns
\* true exactly when the line contains the pattern as a contiguous substring
\* (stated of the calls that return: the value returned is line.contains).
C1_LiteralMatchIsContains ==
    (Done /\ LiteralOnly(pattern) /\ outcome \in {"true", "false"})
        => ((outcome = "true") <=> Contains(input_line, pattern))

\* C2: for a pattern P c? S, with c a letter other than those of the literal
\* prefix P and suffix S, match_pattern returns true for the lines P S and
\* P c S and false for the line P c c S.
C2_OptionalCharacter ==
    Done =>
      \A P \in Letters, c \in Letters, S \in Letters :
        (c # P /\ c # S /\ pattern = P \o c \o Ch("?") \o S)
          => /\ input_line \in {P \o S, P \o c \o S} => outcome = "true"
             /\ input_line = P \o c \o c \o S => outcome = "false"

\* C3: OneOfMore over a literal whose run of matches extends to the end of
\* the line matches the whole run: the pattern c+ against a line of one or
\* more c reports a match.
C3_OneOrMoreRunToEndOfLine ==
    Done =>
      \A c \in Letters, n \in 1..MaxAsciiLine :
        (pattern = c \o Ch("+") /\ input_line = Run(c, n)) => outcome = "true"

\* C4: once the pattern has parsed, matching never panics: the outcome of the
\* match call is a boolean (stated of ASCII patterns and lines, where it
\* already fails).
C4_MatchingNeverPanics ==
    (IsAscii(pattern) /\ IsAscii(input_line))
        => outcome \notin {"panic", "overflow"}

\* C5: the match call terminates.
C5_MatchTerminates == <>Done

\* C6: the pattern ^c, c a literal character, matches exactly when the line
\* is not empty and its first character is c; and StartOfLine never returns
\* Match at a char_index other than 0.
C6_StartAnchor ==
    /\ [](Done =>
            \A c \in LiteralTokens :
              pattern = Ch("^") \o c
                => ((outcome = "true") <=> FirstCharIs(input_line, c)))
    /\ [][(Running("StartOfLine") /\ Top.returned /\ result'.k = "Match")
             => Top.char_index = 0]_vars

\* C6, its case: ^c does not match a line that holds c, but not first
C6_Witness ==
    /\ Done
    /\ outcome = "false"
    /\ \E c \in LiteralTokens :
         /\ pattern = Ch("^") \o c
         /\ ~FirstCharIs(input_line, c)
         /\ Contains(input_line, c)

\* C7: a pattern that ends in $ matches exactly when the line ends with what
\* the fragment wrapped by $ matches: for the wrapped fragments c and c+, c a
\* letter, exactly when the last character of the line is c (stated of ASCII
\* lines, where it already fails).
C7_EndAnchor ==
    (Done /\ IsAscii(input_line)) =>
      \A c \in Letters :
        pattern \in {c \o Ch("$"), c \o Ch("+") \o Ch("$")}
          => ((outcome = "true") <=> LastCharIs(input_line, c))

\* C8: a pattern with a '[' and no ']' after it fails to parse: no fragments
\* are returned and no match is attempted.
C8_UnterminatedGroupFails ==
    (UnterminatedGroup(pattern) /\ pc # "match_pattern")
        => (Done /\ outcome = "parse_panic")

\* C9: when the evaluation of a StartOfLine fragment at char_index 0 fails,
\* the next step of Matcher::match returns false, char_index unchanged.
C9_AnchorFailureEndsMatch ==
    [][(/\ pc = "match"
        /\ stack = <<>>
        /\ result.k = "NoMatch"
        /\ char_index = 0
        /\ fragments[current_fragment].t = "StartOfLine")
          => (pc' = "done" /\ outcome' = "false" /\ char_index' = 0)]_vars

\* C10: for a pattern made only of literal characters, the match call returns
\* true exactly when the characters of the pattern occur in the line in
\* order, as a possibly non-contiguous subsequence.
C10_LiteralMatchIsSubsequence ==
    (Done /\ LiteralOnly(pattern))
        => ((outcome = "true")
              <=> IsSubsequence(Chars(pattern), Chars(input_line)))

\* C10, what is left of it: the match calls that return, return true exactly
\* when the characters of the pattern are a subsequence of those of the line
ReturnedLiteralMatchIsSubsequence ==
    (Done /\ LiteralOnly(pattern) /\ outcome \in {"true", "false"})
        => ((outcome = "true")
              <=> IsSubsequence(Chars(pattern), Chars(input_line)))

====
